---- MODULE Spec2Model ----
(***************************************************************************)
(* Model of the Streamlit quiz application quiz_running.py: the session    *)
(* store (st.session_state), the two sidebar button handlers (Fetch &      *)
(* Preview Article, Generate Quiz), the quiz form with its radio widgets   *)
(* and Submit Answers button, and the score computed on every rerun.       *)
(*                                                                         *)
(* A last section models the single-step variant quiz.py, whose only      *)
(* sidebar button fetches the article and generates the quiz in one run.   *)
(*                                                                         *)
(* Strings are sequences of characters; the model reply is a sequence of   *)
(* lexical tokens: "[", "]", ",", a prose word "w", and one token per JSON *)
(* object the model may emit (see ItemOf).                                 *)
(***************************************************************************)
EXTENDS Integers, Sequences, FiniteSets, TLC

VARIABLES article_text, quiz_data, submitted, q, pending,
          pc, invoked, action, origin, message, cause,
          num_questions, requested

vars == <<article_text, quiz_data, submitted, q, pending,
          pc, invoked, action, origin, message, cause,
          num_questions, requested>>

\* The four SessionState fields of the specification.
session == <<article_text, quiz_data, submitted, q>>

----------------------------------------------------------------------------
\* Bounds of the model.
MaxLen == 5
MaxText == 2
MaxItems == 2
MaxArticle == 4
MaxQuizPy == 2

----------------------------------------------------------------------------
\* Python values.

\* Python's None where an option key is expected (radio index=None, JSON null,
\* dict.get of a missing key).
None == "None"

\* st.session_state.quiz_data: None, or the list json.loads returned.
NoneValue == [none |-> TRUE, list |-> <<>>]

List(l) == [none |-> FALSE, list |-> l]

\* Truthiness of quiz_data in `if st.session_state.quiz_data:`.
Truthy(qd) == ~qd.none /\ Len(qd.list) > 0

\* The JSON objects the model may emit, one per object token.
ItemOf(tok) ==
  CASE tok = "good"  -> [keys |-> {"question", "options", "correct_answer"},
                         options |-> <<"A", "B", "C", "D">>, correct_answer |-> "A"]
    [] tok = "nokey" -> [keys |-> {"question", "options"},
                         options |-> <<"A", "B", "C", "D">>, correct_answer |-> None]
    [] tok = "null"  -> [keys |-> {"question", "options", "correct_answer"},
                         options |-> <<"A", "B", "C", "D">>, correct_answer |-> None]
    [] tok = "bad"   -> [keys |-> {"question", "options", "correct_answer"},
                         options |-> <<"A", "B">>, correct_answer |-> "E"]
    [] OTHER         -> [keys |-> {}, options |-> <<>>, correct_answer |-> None]

ObjTokens == {"good", "nokey", "null", "bad"}

\* A nested array as an element of the parsed list.
ArrElem == "arr"

Tokens == {"[", "]", ",", "w"} \cup ObjTokens

RawOutputs == UNION {[1..n -> Tokens] : n \in 0..MaxLen}

Chars == {"a", " ", "\n"}

Texts == UNION {[1..n -> Chars] : n \in 0..MaxText}

Whitespace == {" ", "\n"}

Urls == {<<>>, <<" ">>, <<"u">>, <<" ", "u">>}

\* num_questions = st.slider("Number of questions", 1, 10, 5)
SliderMin == 1
SliderMax == 10
SliderDefault == 5

----------------------------------------------------------------------------
\* String functions of the Fetch handler.

RECURSIVE lstrip(_)
lstrip(s) == IF s # <<>> /\ Head(s) \in Whitespace THEN lstrip(Tail(s)) ELSE s

RECURSIVE rstrip(_)
rstrip(s) ==
  IF s # <<>> /\ s[Len(s)] \in Whitespace THEN rstrip(SubSeq(s, 1, Len(s) - 1)) ELSE s

\* str.strip()
strip(s) == rstrip(lstrip(s))

\* str.split() without arguments: the maximal runs of non-whitespace characters.
RECURSIVE SplitFrom(_, _, _)
SplitFrom(s, cur, acc) ==
  IF s = <<>> THEN (IF cur = <<>> THEN acc ELSE Append(acc, cur))
  ELSE IF Head(s) \in Whitespace
       THEN SplitFrom(Tail(s), <<>>, IF cur = <<>> THEN acc ELSE Append(acc, cur))
       ELSE SplitFrom(Tail(s), Append(cur, Head(s)), acc)

split(s) == SplitFrom(s, <<>>, <<>>)

\* " ".join(words)
RECURSIVE join(_)
join(words) ==
  IF words = <<>> THEN <<>>
  ELSE IF Len(words) = 1 THEN words[1]
  ELSE words[1] \o <<" ">> \o join(Tail(words))

\* normalize that only strips the ends of the text.
normalize_StripOnly(text) == strip(text)

\* text = " ".join(soup.get_text(separator="\n", strip=True).split())
normalize(text) == join(split(text))

\* requests.get(cleaned_url) ... soup.get_text(...): either an exception or the
\* text of the main content block.
FetchOutcomes(cleaned_url) ==
  IF cleaned_url = <<>>
  THEN {[raised |-> TRUE, exc |-> "MissingSchema", text |-> <<>>]}
  ELSE {[raised |-> TRUE, exc |-> e, text |-> <<>>] : e \in {"ConnectionError", "ParserError"}}
       \cup {[raised |-> FALSE, exc |-> "", text |-> t] : t \in Texts}

----------------------------------------------------------------------------
\* Extraction functions of the Generate handler.

\* chain.invoke(...): either an exception or the reply text raw_output.
ModelReplies ==
  {[raised |-> TRUE, exc |-> "APIError", raw_output |-> <<>>]}
  \cup {[raised |-> FALSE, exc |-> "", raw_output |-> r] : r \in RawOutputs}

\* No model call is in progress.
NoReply == [raised |-> FALSE, exc |-> "", raw_output |-> <<>>]

Positions(s, tok) == {i \in 1..Len(s) : s[i] = tok}

Min(S) == CHOOSE x \in S : \A y \in S : x <= y

Max(S) == CHOOSE x \in S : \A y \in S : x >= y

\* re.search(r"\[.*\]", raw_output, re.DOTALL): leftmost "[" that is followed
\* by some "]", extended greedily to the last "]" of the string.
re_search(raw) ==
  LET opens  == Positions(raw, "[")
      closes == Positions(raw, "]")
  IN IF opens # {} /\ closes # {} /\ Min(opens) < Max(closes)
     THEN [found |-> TRUE, group0 |-> SubSeq(raw, Min(opens), Max(closes))]
     ELSE [found |-> FALSE, group0 |-> <<>>]

\* JSON grammar over tokens.  ParseValue(s, i) is the index after the value
\* that starts at s[i], or 0 when no value starts there.
RECURSIVE ParseValue(_, _), ParseElements(_, _)
ParseValue(s, i) ==
  IF i > Len(s) THEN 0
  ELSE IF s[i] \in ObjTokens THEN i + 1
  ELSE IF s[i] = "["
       THEN IF i + 1 <= Len(s) /\ s[i + 1] = "]" THEN i + 2 ELSE ParseElements(s, i + 1)
       ELSE 0

ParseElements(s, i) ==
  LET j == ParseValue(s, i)
  IN IF j = 0 \/ j > Len(s) THEN 0
     ELSE IF s[j] = "]" THEN j + 1
     ELSE IF s[j] = "," THEN ParseElements(s, j + 1)
     ELSE 0

\* The elements of the top-level array that starts at s[1], in order.
RECURSIVE ElementsFrom(_, _)
ElementsFrom(s, i) ==
  IF s[i] = "]" THEN <<>>
  ELSE LET j == ParseValue(s, i)
           e == IF s[i] = "[" THEN ArrElem ELSE s[i]
       IN <<e>> \o (IF s[j] = "," THEN ElementsFrom(s, j + 1) ELSE <<>>)

\* json.loads(json_str) for the matched region, which starts with "[" and ends
\* with "]": JSONDecodeError unless the whole region is one array value.
json_loads(s) ==
  IF ParseValue(s, 1) = Len(s) + 1
  THEN [raised |-> FALSE, result |-> ElementsFrom(s, 2)]
  ELSE [raised |-> TRUE, result |-> <<>>]

\* all(key in q_item for key in ["question", "options", "correct_answer"])
HasAllKeys(e) ==
  e # ArrElem /\ {"question", "options", "correct_answer"} \subseteq ItemOf(e).keys

\* is_valid after the validation loop.
is_valid(result) == \A i \in 1..Len(result) : HasAllKeys(result[i])

\* The Python list of dicts for a parsed array.
Dicts(result) == [i \in 1..Len(result) |-> ItemOf(result[i])]

----------------------------------------------------------------------------
\* Messages shown by st.error / st.success.
MsgNone       == ""
MsgEnterUrl   == "Please enter a URL."
MsgFetchError == "An error occurred while fetching the article: "
MsgIncomplete == "The LLM returned incomplete data. Please try again."
MsgGenerated  == "Quiz Generated! Good luck!"
MsgNoJson     == "Could not find valid JSON. Please try again."
MsgParse      == "Failed to parse LLM output. The format was invalid."
MsgError      == "An error occurred: "

----------------------------------------------------------------------------
\* Rendering (the part of the script after the sidebar).

\* RenderRadios that registers no key for a widget rendered for the first time.
RenderRadios_NoFreshKeys(qd, oldq) ==
  IF Truthy(qd)
  THEN [idx \in (1..Len(qd.list)) \cap DOMAIN oldq |-> oldq[idx]]
  ELSE <<>>

\* The radio widgets keyed q_1..q_n: a widget rendered in this run keeps the
\* value stored under its key, a new one starts at index=None, and the key of
\* a widget that is not rendered is dropped from the session store.
RenderRadios(qd, oldq) ==
  IF Truthy(qd)
  THEN [idx \in 1..Len(qd.list) |-> IF idx \in DOMAIN oldq THEN oldq[idx] ELSE None]
  ELSE <<>>

\* The slider has no key: it keeps its value while it is rendered (article_text
\* truthy) and starts again at its default after a run that did not render it.
RenderSlider(at, old) == IF at # <<>> THEN old ELSE SliderDefault

\* correct_answer = q.get('correct_answer')
get_correct_answer(q_item) ==
  IF "correct_answer" \in q_item.keys THEN q_item.correct_answer ELSE None

\* Contribution that counts every selection.
Contribution_AnySelection(q_item, user_choice) ==
  IF user_choice # None THEN 1 ELSE 0

\* if user_choice == correct_answer: score += 1
Contribution(q_item, user_choice) ==
  IF user_choice = get_correct_answer(q_item) THEN 1 ELSE 0

RECURSIVE ScoreUpTo(_, _, _)
ScoreUpTo(items, answers, n) ==
  IF n = 0 THEN 0
  ELSE ScoreUpTo(items, answers, n - 1) + Contribution(items[n], answers[n])

\* The score shown when submitted and quiz_data are both truthy.
score == ScoreUpTo(quiz_data.list, q, Len(quiz_data.list))

\* if st.session_state.submitted and st.session_state.quiz_data: the score
\* and the review are computed, reading st.session_state['q_idx'].
ScoreShown == submitted /\ Truthy(quiz_data)

\* The named state of the session, as the script's conditionals see it: the
\* quiz is shown when quiz_data is truthy, the preview and the Generate button
\* when article_text is truthy.
StateName ==
  IF Truthy(quiz_data) THEN (IF submitted THEN "Reviewing" ELSE "QuizReady")
  ELSE IF article_text # <<>> THEN "Previewing"
  ELSE "Idle"

----------------------------------------------------------------------------
Init ==
  /\ article_text = <<>>
  /\ quiz_data = NoneValue
  /\ submitted = FALSE
  /\ q = <<>>
  /\ pending = <<>>
  /\ pc = "idle"
  /\ invoked = NoReply
  /\ action = "Init"
  /\ origin = "Idle"
  /\ message = MsgNone
  /\ cause = ""
  /\ num_questions = SliderDefault
  /\ requested = 0

\* FetchReset that leaves the old quiz in place.
FetchReset_KeepsQuiz == [quiz_data |-> quiz_data, submitted |-> FALSE]

\* FetchReset without the reset of submitted.
FetchReset_KeepsSubmitted == [quiz_data |-> NoneValue, submitted |-> submitted]

\* "whenever we get a new article, we should clear out any old quiz."
FetchReset == [quiz_data |-> NoneValue, submitted |-> FALSE]

\* FetchBranch whose exception handler leaves article_text as it was.
FetchBranch_KeepsArticle(url, o) ==
  IF url = <<>>
  THEN [article_text |-> <<>>, message |-> MsgEnterUrl, cause |-> ""]
  ELSE IF o.raised
       THEN [article_text |-> article_text, message |-> MsgFetchError, cause |-> o.exc]
       ELSE [article_text |-> normalize(o.text), message |-> MsgNone, cause |-> ""]

\* The branch of the Fetch handler taken for url and fetch outcome o: the
\* article text stored and the message shown.
FetchBranch(url, o) ==
  IF url = <<>>
  THEN [article_text |-> <<>>, message |-> MsgEnterUrl, cause |-> ""]
  ELSE IF o.raised
       THEN [article_text |-> <<>>, message |-> MsgFetchError, cause |-> o.exc]
       ELSE [article_text |-> normalize(o.text), message |-> MsgNone, cause |-> ""]

\* The run started by a click on "Fetch & Preview Article" with the url field
\* holding url, when the fetch and the text extraction end as o.
Fetch(url, o) ==
  /\ pc = "idle"
  /\ LET b == FetchBranch(url, o)
         r == FetchReset
     IN /\ quiz_data' = r.quiz_data
        /\ submitted' = r.submitted
        /\ article_text' = b.article_text
        /\ message' = b.message
        /\ cause' = b.cause
        /\ q' = RenderRadios(quiz_data', q)
        /\ pending' = q'
  /\ action' = "Fetch"
  /\ origin' = StateName
  /\ num_questions' = RenderSlider(article_text', num_questions)
  /\ requested' = 0
  /\ UNCHANGED <<pc, invoked>>

\* Click on "Fetch & Preview Article".
FetchPreview == \E url \in Urls : \E o \in FetchOutcomes(strip(url)) : Fetch(url, o)

\* InvokeChain with a Generate button that is rendered without an article.
InvokeChain_WithoutArticle ==
  /\ pc = "idle"
  /\ pc' = "invoked"
  /\ invoked' \in ModelReplies
  /\ action' = "Generate"
  /\ origin' = StateName
  /\ message' = MsgNone
  /\ cause' = ""
  /\ requested' = num_questions
  /\ UNCHANGED <<article_text, quiz_data, submitted, q, pending, num_questions>>

\* Click on "Generate Quiz", up to the return of chain.invoke.  The button
\* exists only while article_text is truthy; the run blocks in the model call.
InvokeChain ==
  /\ pc = "idle"
  /\ article_text # <<>>
  /\ pc' = "invoked"
  /\ invoked' \in ModelReplies
  /\ action' = "Generate"
  /\ origin' = StateName
  /\ message' = MsgNone
  /\ cause' = ""
  /\ requested' = num_questions
  /\ UNCHANGED <<article_text, quiz_data, submitted, q, pending, num_questions>>

\* StoreQuiz without the clearing of article_text.
StoreQuiz_KeepsArticle(result) ==
  [quiz_data |-> List(Dicts(result)), submitted |-> FALSE, article_text |-> article_text]

\* StoreQuiz that cuts the list at the requested number of questions.
StoreQuiz_Truncates(result) ==
  [quiz_data |-> List(Dicts(SubSeq(result, 1, Min({Len(result), num_questions})))),
   submitted |-> FALSE, article_text |-> <<>>]

\* The assignments of the success branch of the Generate handler.
StoreQuiz(result) ==
  [quiz_data |-> List(Dicts(result)), submitted |-> FALSE, article_text |-> <<>>]

\* KeepSession that hides the article again.
KeepSession_ClearsArticle ==
  [quiz_data |-> quiz_data, submitted |-> submitted, article_text |-> <<>>]

\* The session fields as they are, for the branches that store nothing.
KeepSession ==
  [quiz_data |-> quiz_data, submitted |-> submitted, article_text |-> article_text]

\* The Generate handler after chain.invoke returned m: the session fields
\* after it, the message shown and the exception text.
GenerateBranch(m) ==
  IF m.raised
  THEN [s |-> KeepSession, message |-> MsgError, cause |-> m.exc]
  ELSE LET match == re_search(m.raw_output)
       IN IF ~match.found
          THEN [s |-> KeepSession, message |-> MsgNoJson, cause |-> ""]
          ELSE LET parsed == json_loads(match.group0)
               IN IF parsed.raised
                  THEN [s |-> KeepSession, message |-> MsgParse, cause |-> ""]
                  ELSE IF is_valid(parsed.result)
                       THEN [s |-> StoreQuiz(parsed.result),
                             message |-> MsgGenerated, cause |-> ""]
                       ELSE [s |-> KeepSession, message |-> MsgIncomplete, cause |-> ""]

\* The rest of the Generate run: extraction, validation, the stores of the
\* success branch or an error message, then the rendering of the page.
GenerateQuiz ==
  /\ pc = "invoked"
  /\ LET b == GenerateBranch(invoked)
     IN /\ quiz_data' = b.s.quiz_data
        /\ submitted' = b.s.submitted
        /\ article_text' = b.s.article_text
        /\ message' = b.message
        /\ cause' = b.cause
        /\ q' = RenderRadios(quiz_data', q)
        /\ pending' = q'
  /\ pc' = "idle"
  /\ invoked' = NoReply
  /\ num_questions' = RenderSlider(article_text', num_questions)
  /\ UNCHANGED <<action, origin, requested>>

\* SelectAnswer with radios that stay enabled after submission.
SelectAnswer_IgnoresDisabled ==
  /\ pc = "idle"
  /\ Truthy(quiz_data)
  /\ \E idx \in 1..Len(quiz_data.list) :
       \E k \in 1..Len(quiz_data.list[idx].options) :
         pending' = [pending EXCEPT ![idx] = quiz_data.list[idx].options[k]]
  /\ UNCHANGED <<article_text, quiz_data, submitted, q,
                 pc, invoked, action, origin, message, cause,
                 num_questions, requested>>

\* The user picks option opt of question idx in the quiz form.  The form holds
\* the choice in the browser until "Submit Answers"; the radios are disabled
\* once submitted.
SelectAnswer ==
  /\ pc = "idle"
  /\ Truthy(quiz_data)
  /\ ~submitted
  /\ \E idx \in 1..Len(quiz_data.list) :
       \E k \in 1..Len(quiz_data.list[idx].options) :
         pending' = [pending EXCEPT ![idx] = quiz_data.list[idx].options[k]]
  /\ UNCHANGED <<article_text, quiz_data, submitted, q,
                 pc, invoked, action, origin, message, cause,
                 num_questions, requested>>

\* SubmitAnswers with a submit button that is rendered without a quiz.
SubmitAnswers_WithoutQuiz ==
  /\ pc = "idle"
  /\ submitted' = TRUE
  /\ q' = RenderRadios(quiz_data, pending)
  /\ pending' = q'
  /\ action' = "Submit"
  /\ origin' = StateName
  /\ message' = MsgNone
  /\ cause' = ""
  /\ requested' = 0
  /\ UNCHANGED <<article_text, quiz_data, pc, invoked, num_questions>>

\* SubmitAnswers that loses the form's values.
SubmitAnswers_DropsAnswers ==
  /\ pc = "idle"
  /\ Truthy(quiz_data)
  /\ submitted' = TRUE
  /\ q' = RenderRadios(quiz_data, <<>>)
  /\ pending' = q'
  /\ action' = "Submit"
  /\ origin' = StateName
  /\ message' = MsgNone
  /\ cause' = ""
  /\ requested' = 0
  /\ UNCHANGED <<article_text, quiz_data, pc, invoked, num_questions>>

\* Click on "Submit Answers": the form's values reach the session store, then
\* submitted = True and st.rerun().
SubmitAnswers ==
  /\ pc = "idle"
  /\ Truthy(quiz_data)
  /\ submitted' = TRUE
  /\ q' = RenderRadios(quiz_data, pending)
  /\ pending' = q'
  /\ action' = "Submit"
  /\ origin' = StateName
  /\ message' = MsgNone
  /\ cause' = ""
  /\ requested' = 0
  /\ UNCHANGED <<article_text, quiz_data, pc, invoked, num_questions>>

\* The user leaves the slider at its default.
Next == FetchPreview \/ InvokeChain \/ GenerateQuiz \/ SelectAnswer \/ SubmitAnswers

Spec == Init /\ [][Next]_vars

----------------------------------------------------------------------------
\* The sidebar of the preview step over longer article texts: the texts of up
\* to MaxArticle characters, so that inner runs of whitespace and line breaks
\* between words occur.

ArticleTexts == UNION {[1..n -> Chars] : n \in 0..MaxArticle}

ArticleOutcomes ==
  {[raised |-> TRUE, exc |-> "ConnectionError", text |-> <<>>]}
  \cup {[raised |-> FALSE, exc |-> "", text |-> t] : t \in ArticleTexts}

\* Click on "Fetch & Preview Article" with a url in the field.
FetchArticle == \E o \in ArticleOutcomes : Fetch(<<"u">>, o)

----------------------------------------------------------------------------
\* The session with the slider in use.  The model replies here are the JSON
\* arrays of up to MaxItems objects, so that arrays shorter than, as long as
\* and longer than the requested count occur for every slider value.

\* The user moves the "Number of questions" slider; the script reruns with no
\* button pressed.
MoveSlider ==
  /\ pc = "idle"
  /\ article_text # <<>>
  /\ \E n \in (SliderMin..SliderMax) \ {num_questions} : num_questions' = n
  /\ action' = "Slider"
  /\ origin' = StateName
  /\ message' = MsgNone
  /\ cause' = ""
  /\ requested' = 0
  /\ UNCHANGED <<article_text, quiz_data, submitted, q, pending, pc, invoked>>

\* The tokens of the JSON array with the elements items.
RECURSIVE CommaSeparated(_)
CommaSeparated(items) ==
  IF items = <<>> THEN <<>>
  ELSE IF Len(items) = 1 THEN items
  ELSE <<items[1], ",">> \o CommaSeparated(Tail(items))

ArrayReplies ==
  {[raised |-> FALSE, exc |-> "", raw_output |-> <<"[">> \o CommaSeparated(items) \o <<"]">>] :
     items \in UNION {[1..n -> ObjTokens] : n \in 0..MaxItems}}

\* Click on "Generate Quiz" up to the return of chain.invoke, the model
\* answering with a JSON array.
InvokeChainArray ==
  /\ pc = "idle"
  /\ article_text # <<>>
  /\ pc' = "invoked"
  /\ invoked' \in ArrayReplies
  /\ action' = "Generate"
  /\ origin' = StateName
  /\ message' = MsgNone
  /\ cause' = ""
  /\ requested' = num_questions
  /\ UNCHANGED <<article_text, quiz_data, submitted, q, pending, num_questions>>

NextSlider ==
  FetchPreview \/ MoveSlider \/ InvokeChainArray \/ GenerateQuiz \/ SelectAnswer \/ SubmitAnswers

SpecSlider == Init /\ [][NextSlider]_vars

NextArticle == FetchArticle \/ MoveSlider

SpecArticle == Init /\ [][NextArticle]_vars

----------------------------------------------------------------------------
\* The single-step variant quiz.py.  Its session store holds quiz_data,
\* submitted and the radio keys; article_text does not exist there and stays
\* empty, and the Generate button is always rendered.

MsgUrlEmpty       == "URL is empty. Please enter a valid URL."
MsgIncompleteKeys == "The LLM returned incomplete data (missing keys). Please try generating again."
MsgQuizGenerated  == "Quiz Generated!"
MsgNoJsonResponse == "Could not find valid JSON in the LLM response. Please try again."

\* requests.get(cleaned_url) ... " ".join(soup.get_text(...).split()): an
\* exception or the article text handed to the model.
PageOutcomes ==
  {[raised |-> TRUE, exc |-> "ConnectionError", text |-> <<>>],
   [raised |-> FALSE, exc |-> "", text |-> <<"a">>]}

\* chain.invoke(...) in quiz.py: an exception, prose without brackets, a
\* bracketed region that is not JSON, or a JSON array of up to MaxQuizPy
\* objects, each a two-option question or an object without correct_answer.
SingleStepReplies ==
  {[raised |-> TRUE, exc |-> "APIError", raw_output |-> <<>>],
   [raised |-> FALSE, exc |-> "", raw_output |-> <<"w">>],
   [raised |-> FALSE, exc |-> "", raw_output |-> <<"[", "w", "]">>]}
  \cup {[raised |-> FALSE, exc |-> "",
         raw_output |-> <<"[">> \o CommaSeparated(items) \o <<"]">>] :
          items \in UNION {[1..n -> {"bad", "nokey"}] : n \in 0..MaxQuizPy}}

\* The radios of a rerun that resets every answer.
RerenderRadios_AllFresh(qd, old_qd, oldq) ==
  IF Truthy(qd) THEN [idx \in 1..Len(qd.list) |-> None] ELSE <<>>

\* The radio widgets keyed q_1..q_n when the quiz may have been replaced in
\* this run: a radio with the key and the options of a radio of the previous
\* run is the same widget and keeps its value, any other starts at
\* index=None, and the keys of radios that are not rendered are dropped.
RerenderRadios(qd, old_qd, oldq) ==
  IF Truthy(qd)
  THEN [idx \in 1..Len(qd.list) |->
          IF /\ idx \in DOMAIN oldq
             /\ idx <= Len(old_qd.list)
             /\ old_qd.list[idx].options = qd.list[idx].options
          THEN oldq[idx] ELSE None]
  ELSE <<>>

\* The branch of the quiz.py handler taken for url, page outcome o and model
\* reply m: the session values after it, the message shown, whether the model
\* was called and whether st.stop() ended the run.
SingleStepBranch(url, o, m) ==
  LET keep(msg, c, called, stop) ==
        [quiz_data |-> quiz_data, submitted |-> submitted,
         message |-> msg, cause |-> c, called |-> called, stopped |-> stop]
  IN IF url = <<>> THEN keep(MsgEnterUrl, "", FALSE, FALSE)
     ELSE IF strip(url) = <<>> THEN keep(MsgUrlEmpty, "", FALSE, TRUE)
     ELSE IF o.raised THEN keep(MsgError, o.exc, FALSE, FALSE)
     ELSE IF m.raised THEN keep(MsgError, m.exc, TRUE, FALSE)
     ELSE LET match == re_search(m.raw_output)
          IN IF ~match.found THEN keep(MsgNoJsonResponse, "", TRUE, FALSE)
             ELSE LET parsed == json_loads(match.group0)
                  IN IF parsed.raised THEN keep(MsgParse, "", TRUE, FALSE)
                     ELSE IF is_valid(parsed.result)
                          THEN [quiz_data |-> List(Dicts(parsed.result)),
                                submitted |-> FALSE,
                                message |-> MsgQuizGenerated, cause |-> "",
                                called |-> TRUE, stopped |-> FALSE]
                          ELSE keep(MsgIncompleteKeys, "", TRUE, FALSE)

\* The run started by a click on "Generate Quiz" in quiz.py.
GenerateSingleStep(url, o, m) ==
  /\ pc = "idle"
  /\ LET b == SingleStepBranch(url, o, m)
     IN /\ quiz_data' = b.quiz_data
        /\ submitted' = b.submitted
        /\ message' = b.message
        /\ cause' = b.cause
        /\ q' = IF b.stopped THEN <<>> ELSE RerenderRadios(quiz_data', quiz_data, q)
        /\ pending' = IF b.stopped THEN <<>> ELSE RerenderRadios(quiz_data', quiz_data, pending)
        /\ requested' = IF b.called THEN num_questions ELSE 0
  /\ action' = "Generate"
  /\ origin' = StateName
  /\ UNCHANGED <<article_text, pc, invoked, num_questions>>

GenerateQuizPy ==
  \E url \in Urls : \E o \in PageOutcomes : \E m \in SingleStepReplies :
    GenerateSingleStep(url, o, m)

\* The user edits the url field: a rerun with no button pressed.
EditUrl ==
  /\ pc = "idle"
  /\ q' = RerenderRadios(quiz_data, quiz_data, q)
  /\ pending' = RerenderRadios(quiz_data, quiz_data, pending)
  /\ action' = "Rerun"
  /\ origin' = StateName
  /\ message' = MsgNone
  /\ cause' = ""
  /\ requested' = 0
  /\ UNCHANGED <<article_text, quiz_data, submitted, pc, invoked, num_questions>>

\* The page of the last run holds the quiz form: the run was not ended by
\* st.stop() in the sidebar.
FormRendered == message # MsgUrlEmpty

SelectAnswerPy == FormRendered /\ SelectAnswer

SubmitAnswersPy == FormRendered /\ SubmitAnswers

NextQuizPy == GenerateQuizPy \/ EditUrl \/ SelectAnswerPy \/ SubmitAnswersPy

SpecQuizPy == Init /\ [][NextQuizPy]_vars

----------------------------------------------------------------------------
\* Vocabulary of the properties.

TypeOK ==
  /\ submitted \in BOOLEAN
  /\ pc \in {"idle", "invoked"}
  /\ action \in {"Init", "Fetch", "Generate", "Submit", "Slider", "Rerun"}
  /\ num_questions \in SliderMin..SliderMax
  /\ requested \in {0} \cup (SliderMin..SliderMax)
  /\ origin \in {"Idle", "Previewing", "QuizReady", "Reviewing"}

ErrorMessages == {MsgEnterUrl, MsgFetchError, MsgIncomplete, MsgNoJson, MsgParse, MsgError}

\* The array the handler parses from reply m.
Parsed(m) == json_loads(re_search(m.raw_output).group0)

\* The handler takes its success branch for reply m and the array has an item.
ExtractionSucceeds(m) ==
  /\ ~m.raised
  /\ re_search(m.raw_output).found
  /\ ~Parsed(m).raised
  /\ is_valid(Parsed(m).result)
  /\ Parsed(m).result # <<>>

\* The failures of Generate: the model call raises, no array is found, the
\* region does not parse, or no valid item survives.
GenerateFails(m) ==
  \/ m.raised
  \/ ~re_search(m.raw_output).found
  \/ Parsed(m).raised
  \/ SelectSeq(Parsed(m).result, HasAllKeys) = <<>>

\* Depth-tracked bracket matching: the index of the "]" that closes the
\* bracket opened before position i at nesting depth d, or 0.
RECURSIVE MatchingClose(_, _, _)
MatchingClose(s, i, d) ==
  IF i > Len(s) THEN 0
  ELSE IF s[i] = "[" THEN MatchingClose(s, i + 1, d + 1)
  ELSE IF s[i] = "]" THEN (IF d = 1 THEN i ELSE MatchingClose(s, i + 1, d - 1))
  ELSE MatchingClose(s, i + 1, d)

HasBalanced(raw) ==
  Positions(raw, "[") # {} /\ MatchingClose(raw, Min(Positions(raw, "[")) + 1, 1) # 0

\* The first "[" of raw through its matching "]".
BalancedRegion(raw) ==
  LET first == Min(Positions(raw, "["))
  IN SubSeq(raw, first, MatchingClose(raw, first + 1, 1))

\* A step that is a run of the Fetch handler.
FetchRun == pc = "idle" /\ pc' = "idle" /\ action' = "Fetch"

AllUnanswered(n) == [idx \in 1..n |-> None]

----------------------------------------------------------------------------
\* C1: a Generate that fails (model call raises, no array found, region does
\* not parse, or no valid item survives, the reply "[]" included) leaves
\* article_text, quiz_data, submitted and the answers exactly as they were,
\* the session stays in Previewing and an error is shown.
C1_FailedGenerateLeavesState ==
  [][(pc = "invoked" /\ GenerateFails(invoked))
       => (session' = session /\ StateName' = "Previewing" /\ message' \in ErrorMessages)]_vars

\* C2: a Generate in Previewing whose model call and extraction succeed ends
\* in QuizReady: quiz_data is the extracted list, submitted is false, every
\* answer is unanswered and article_text is empty.
C2_GenerateSuccess ==
  [][(pc = "invoked" /\ origin = "Previewing" /\ ExtractionSucceeds(invoked))
       => /\ quiz_data' = List(Dicts(Parsed(invoked).result))
          /\ submitted' = FALSE
          /\ q' = AllUnanswered(Len(Parsed(invoked).result))
          /\ pending' = q'
          /\ article_text' = <<>>
          /\ StateName' = "QuizReady"
          /\ message' = MsgGenerated]_vars

C2_Witness ==
  /\ pc = "idle" /\ action = "Generate" /\ origin = "Previewing"
  /\ message = MsgGenerated
  /\ StateName = "QuizReady"
  /\ Len(quiz_data.list) = 2
  /\ quiz_data.list[1] # quiz_data.list[2]

\* C3 as stated: a Fetch aborted by a fetch error and a Generate aborted by a
\* model error leave article_text, quiz_data, submitted and the answers
\* unchanged, and the error is shown with its cause.
C3_AbortLeavesState ==
  [][/\ FetchRun => \A url \in Urls : \A o \in FetchOutcomes(strip(url)) :
          (url # <<>> /\ o.raised /\ Fetch(url, o))
            => (session' = session /\ message' = MsgFetchError /\ cause' = o.exc)
     /\ (pc = "invoked" /\ invoked.raised)
          => (session' = session /\ message' = MsgError /\ cause' = invoked.exc)]_vars

\* C3 amended: a Generate aborted by a model error leaves article_text,
\* quiz_data, submitted and the answers unchanged; a Fetch aborted by a fetch
\* error clears quiz_data, submitted, the answers and article_text, also when
\* a quiz existed; both show the error with its cause.
C3_AbortEffects ==
  [][/\ FetchRun => \A url \in Urls : \A o \in FetchOutcomes(strip(url)) :
          (url # <<>> /\ o.raised /\ Fetch(url, o))
            => /\ quiz_data' = NoneValue /\ submitted' = FALSE
               /\ q' = <<>> /\ article_text' = <<>>
               /\ message' = MsgFetchError /\ cause' = o.exc
     /\ (pc = "invoked" /\ invoked.raised)
          => (session' = session /\ message' = MsgError /\ cause' = invoked.exc)]_vars

C3_Witness ==
  /\ action = "Fetch" /\ origin = "Reviewing"
  /\ message = MsgFetchError /\ cause = "ConnectionError"
  /\ quiz_data = NoneValue /\ ~submitted /\ q = <<>>

\* C4 as stated: from any state, a Fetch with a non-empty url whose fetch and
\* normalisation succeed stores the normalised text, clears quiz_data,
\* submitted and the answers, and ends in Previewing.
C4_FetchEndsPreviewing ==
  [][FetchRun => \A url \in Urls : \A o \in FetchOutcomes(strip(url)) :
       (url # <<>> /\ ~o.raised /\ Fetch(url, o))
         => /\ article_text' = normalize(o.text)
            /\ quiz_data' = NoneValue /\ submitted' = FALSE /\ q' = <<>>
            /\ StateName' = "Previewing"]_vars

\* C4 amended: from any state, a Fetch with a non-empty url whose fetch and
\* normalisation succeed stores the normalised text and clears quiz_data,
\* submitted and the answers; it ends in Previewing when the normalised text
\* is non-empty and in Idle when it is empty.
C4_FetchSuccess ==
  [][FetchRun => \A url \in Urls : \A o \in FetchOutcomes(strip(url)) :
       (url # <<>> /\ ~o.raised /\ Fetch(url, o))
         => /\ article_text' = normalize(o.text)
            /\ quiz_data' = NoneValue /\ submitted' = FALSE /\ q' = <<>>
            /\ StateName' = IF normalize(o.text) # <<>> THEN "Previewing" ELSE "Idle"]_vars

C4_Witness ==
  /\ action = "Fetch" /\ origin = "Reviewing"
  /\ message = MsgNone
  /\ StateName = "Previewing"
  /\ quiz_data = NoneValue /\ ~submitted /\ q = <<>>

\* C5: a Fetch whose fetch or normalisation fails ends in Idle (article_text
\* empty, no quiz_data, submitted false) with an error shown, never in
\* Previewing, QuizReady or Reviewing.
C5_FailedFetchEndsIdle ==
  [][FetchRun => \A url \in Urls : \A o \in FetchOutcomes(strip(url)) :
       (o.raised /\ Fetch(url, o))
         => /\ StateName' = "Idle"
            /\ article_text' = <<>> /\ ~Truthy(quiz_data') /\ ~submitted'
            /\ message' \in ErrorMessages]_vars

C5_Witness ==
  /\ action = "Fetch" /\ origin = "Previewing"
  /\ message = MsgFetchError
  /\ StateName = "Idle"

\* C6: every item of a stored quiz_data has exactly four options and a
\* correct_answer that is one of its option keys.
C6_StoredItemsValid ==
  ~quiz_data.none =>
    \A i \in 1..Len(quiz_data.list) :
      LET item == quiz_data.list[i]
      IN /\ Len(item.options) = 4
         /\ "correct_answer" \in item.keys
         /\ \E k \in 1..Len(item.options) : item.options[k] = item.correct_answer

\* C7: when the parsed array has valid and invalid elements, Generate drops
\* only the invalid ones and stores the survivors in their order; it fails
\* only when no element survives.
C7_PartialTolerance ==
  [][(pc = "invoked" /\ ~invoked.raised /\ re_search(invoked.raw_output).found
        /\ ~Parsed(invoked).raised)
       => LET survivors == SelectSeq(Parsed(invoked).result, HasAllKeys)
          IN survivors # <<>>
               => (quiz_data' = List(Dicts(survivors)) /\ message' = MsgGenerated)]_vars

\* C8: extraction parses the region from the first "[" through its matching
\* "]": the outcome of Generate for a reply is its outcome for that region
\* alone, whatever prose or brackets precede or follow it.
C8_OutermostBracketPair ==
  [][(pc = "invoked" /\ ~invoked.raised /\ HasBalanced(invoked.raw_output))
       => LET b == GenerateBranch([invoked EXCEPT
                     !.raw_output = BalancedRegion(invoked.raw_output)])
          IN quiz_data' = b.s.quiz_data /\ message' = b.message]_vars

\* C9: a reply without an array-shaped region fails as NoJsonFound; a reply
\* with an opened but invalid array region fails as MalformedJson; a reply
\* whose array is empty fails and is not a successful generation.
C9_FailureKinds ==
  [][(pc = "invoked" /\ ~invoked.raised)
       => LET raw == invoked.raw_output
          IN /\ Positions(raw, "[") = {} => message' = MsgNoJson
             /\ (Positions(raw, "[") # {} /\ ~HasBalanced(raw)) => message' = MsgParse
             /\ (HasBalanced(raw) /\ BalancedRegion(raw) = <<"[", "]">>)
                  => (message' \in ErrorMessages /\ session' = session)]_vars

\* C10: a question whose answer is unanswered adds 0 to the score, whatever
\* its correct_answer holds.
C10_UnansweredScoresZero ==
  (Truthy(quiz_data) /\ submitted) =>
    \A idx \in 1..Len(quiz_data.list) :
      q[idx] = None => Contribution(quiz_data.list[idx], q[idx]) = 0

\* C11: in Reviewing the score is the number of question indices whose stored
\* answer equals the item's correct_answer, so it lies between 0 and the
\* number of questions.
C11_ScoreCountsMatches ==
  StateName = "Reviewing" =>
    LET n == Len(quiz_data.list)
    IN /\ score = Cardinality({i \in 1..n : q[i] = quiz_data.list[i].correct_answer})
       /\ 0 <= score /\ score <= n

C11_Witness ==
  /\ StateName = "Reviewing"
  /\ Len(quiz_data.list) = 2
  /\ q = <<"A", "B">>
  /\ quiz_data.list[1].correct_answer = "A" /\ quiz_data.list[2].correct_answer = "A"
  /\ score = 1

\* C12: once submitted is true, the answers keep their values, in the session
\* store and in the form, in every step that leaves submitted true.
C12_AnswersFrozenAfterSubmit ==
  [][(submitted /\ submitted') => (q' = q /\ pending' = pending)]_vars

C12_Witness ==
  /\ action = "Submit" /\ origin = "Reviewing"
  /\ submitted
  /\ q = <<"B", None>>

\* C13: while no quiz exists (Idle or Previewing) there is no Submit: no
\* submission can change submitted or another field, submitted is false and
\* the score section, with its lookups of the answers, is not run.
C13_NoSubmitWithoutQuiz ==
  StateName \in {"Idle", "Previewing"} =>
    (~ENABLED SubmitAnswers /\ ~submitted /\ ~ScoreShown)

C13_Witness ==
  /\ StateName = "Previewing"
  /\ action = "Fetch" /\ origin = "Reviewing"
  /\ ~ENABLED SubmitAnswers

\* C14: Submit in QuizReady sets submitted and leaves quiz_data and
\* article_text as they were, the answers being the values committed by the
\* form, and ends in Reviewing; Submit in Reviewing changes no session field.
C14_SubmitEffect ==
  [][(pc = "idle" /\ action' = "Submit")
       => /\ StateName \in {"QuizReady", "Reviewing"}
          /\ submitted' = TRUE
          /\ quiz_data' = quiz_data
          /\ article_text' = article_text
          /\ q' = pending
          /\ StateName' = "Reviewing"
          /\ StateName = "Reviewing" => session' = session]_vars

C14_Witness ==
  /\ action = "Submit" /\ origin = "QuizReady"
  /\ StateName = "Reviewing"
  /\ q = <<"A", None>>
  /\ article_text = <<>>

\* C16: article_text and quiz_data are never both present: article_text is
\* non-empty only while quiz_data is None or empty.
C16_ArticleXorQuiz ==
  article_text # <<>> => ~Truthy(quiz_data)

C16_Witness ==
  /\ action = "Fetch" /\ origin = "QuizReady"
  /\ article_text # <<>>
  /\ quiz_data = NoneValue

C18_EmptyUrlNoEffect ==
  [][FetchRun => \A o \in FetchOutcomes(<<>>) :
       Fetch(<<>>, o) => (session' = session /\ message' = MsgEnterUrl)]_vars

\* The failure kind of a Generate for reply m; "EmptyQuiz" when the array
\* parses and no element passes validation.
FailureKind(m) ==
  IF m.raised THEN "ModelError"
  ELSE IF ~re_search(m.raw_output).found THEN "NoJsonFound"
  ELSE IF Parsed(m).raised THEN "MalformedJson"
  ELSE IF SelectSeq(Parsed(m).result, HasAllKeys) = <<>> THEN "EmptyQuiz"
  ELSE "None"

\* The failure kind a message stands for.
KindShown(msg) ==
  CASE msg = MsgError      -> "ModelError"
    [] msg = MsgNoJson     -> "NoJsonFound"
    [] msg = MsgParse      -> "MalformedJson"
    [] msg = MsgIncomplete -> "EmptyQuiz"
    [] OTHER               -> "None"

\* C19: each failure kind of Generate shows its own error message, so the
\* message tells the kind, and no failure is reported as success.
C19_DistinctFailureMessages ==
  [][(pc = "invoked" /\ FailureKind(invoked) # "None")
       => (message' \in ErrorMessages /\ KindShown(message') = FailureKind(invoked))]_vars

\* C15: the requested question count neither truncates nor pads: whatever the
\* slider value 1..10 passed to the model, a quiz that Generate stores is the
\* list of the elements that passed validation, all of them and in the order
\* of the model's array.
C15_CountDoesNotTruncate ==
  [][(pc = "invoked" /\ message' = MsgGenerated)
       => LET survivors == SelectSeq(Parsed(invoked).result, HasAllKeys)
          IN /\ requested \in SliderMin..SliderMax
             /\ quiz_data' = List(Dicts(survivors))
             /\ Len(quiz_data'.list) = Len(Parsed(invoked).result)]_vars

C15_Witness ==
  /\ pc = "idle" /\ action = "Generate"
  /\ message = MsgGenerated
  /\ requested = 1
  /\ Len(quiz_data.list) = 2
  /\ quiz_data.list[1] # quiz_data.list[2]

\* The option keys of a quiz item, as the radio offers them.
OptionKeys(q_item) == {q_item.options[k] : k \in 1..Len(q_item.options)}

\* C21: whenever a quiz is present (QuizReady or Reviewing), the session store
\* holds exactly one answer entry q_idx for every question index
\* 1..len(quiz_data), each a key the question's radio offers or None, so the
\* score and review lookups never meet a missing key.
C21_OneAnswerPerQuestion ==
  StateName \in {"QuizReady", "Reviewing"} =>
    /\ DOMAIN q = 1..Len(quiz_data.list)
    /\ \A idx \in 1..Len(quiz_data.list) :
         q[idx] \in OptionKeys(quiz_data.list[idx]) \cup {None}

C21_Witness ==
  /\ StateName = "QuizReady" /\ pc = "idle"
  /\ action = "Generate"
  /\ Len(quiz_data.list) = 2
  /\ q = <<None, None>>

\* C22: every reachable state is one of the four named states; submitted is
\* true only while a non-empty quiz is present, and Idle and Previewing are
\* states without a quiz and without submission, after any sequence of actions
\* including failed Fetch and failed Generate.
C22_FourStates ==
  /\ StateName \in {"Idle", "Previewing", "QuizReady", "Reviewing"}
  /\ submitted => Truthy(quiz_data)
  /\ StateName = "Reviewing" <=> submitted
  /\ StateName \in {"Idle", "Previewing"} => ~submitted /\ q = <<>>

C22_Witness ==
  /\ action = "Fetch" /\ origin = "Reviewing"
  /\ message = MsgFetchError
  /\ StateName = "Idle"
  /\ ~submitted /\ quiz_data = NoneValue

\* No leading or trailing whitespace, no line break, no two consecutive
\* whitespace characters.
Normalised(t) ==
  /\ t # <<>> => (t[1] \notin Whitespace /\ t[Len(t)] \notin Whitespace)
  /\ \A i \in 1..Len(t) : t[i] # "\n"
  /\ \A i \in 1..(Len(t) - 1) : ~(t[i] \in Whitespace /\ t[i + 1] \in Whitespace)

\* C24: the article text stored by Fetch is whitespace-normalised: no leading
\* or trailing whitespace, no line breaks and no two consecutive whitespace
\* characters, for every extracted article text.
C24_ArticleNormalised == Normalised(article_text)

C24_Witness ==
  /\ action = "Fetch" /\ origin = "Previewing"
  /\ article_text = <<"a", " ", "a">>
  /\ message = MsgNone

\* A run of the quiz.py Generate handler.
GenerateRunPy == pc = "idle" /\ pc' = "idle" /\ action' = "Generate"

\* Every answer key of the session store is still there with its value.
AnswerKeysKept == \A idx \in DOMAIN q : idx \in DOMAIN q' /\ q'[idx] = q[idx]

====
